---- MODULE Spec2Model ----
(***************************************************************************)
(* Model of cmdebug/svd.py (PyCortexMDebug): the SmartDict lookup          *)
(* container and the construction of the peripheral / cluster / register / *)
(* field object graph from an SVD document tree.                           *)
(*                                                                         *)
(* Python strings are sequences of one-character strings, so that lower(), *)
(* startswith(), endswith(), split(',') and the regular expression of      *)
(* prefix_match_iter are computed rather than assumed.  Python objects     *)
(* live in a heap (a sequence of records, an object's identity being its   *)
(* index), so that aliasing between a derivedFrom copy and its source is   *)
(* something the model can express.                                        *)
(***************************************************************************)
EXTENDS Integers, Sequences, FiniteSets, TLC

VARIABLES
    sd,          \* SmartDict under test: [od, casemap]
    lastop,      \* the last SmartDict operation, its outcome and the state before it
    peripherals, \* SVDFile.peripherals: a SmartDict whose values are heap ids
    heap,        \* the Python objects built so far
    status,      \* "loading" | "done" | "failed" (an exception left SVDFile.__init__)
    log,         \* what print(e) reported, in order
    ref,         \* history: the load of the same nodes with the base-less ones left out
    nloaded,     \* number of nodes handed to the loader so far
    owner,       \* heap id of the peripheral whose register nodes are being added
    lastnode,    \* history: the node last handed over, and the heap and lookup before it
    touched      \* history: the mutations applied to the loaded model

vars == <<sd, lastop, peripherals, heap, status, log, ref, nloaded, owner, lastnode, touched>>

(***************************************************************************)
(* Bounds                                                                  *)
(***************************************************************************)
\* most entries a SmartDict under test holds
MaxEntries == 3
\* most peripheral nodes in a document
MaxPeriph == 3
\* most register nodes added to one owner
MaxRegs == 3
\* most mutations applied to a loaded model
MaxTouch == 1

(***************************************************************************)
(* Python values                                                           *)
(***************************************************************************)
\* Python's None; also "this child element is absent" (hasattr is False)
None == <<"<None>">>

UpperChars == <<"A","B","C","D","E","F","G","H","I","J","K","L","M",
                "N","O","P","Q","R","S","T","U","V","W","X","Y","Z">>
LowerChars == <<"a","b","c","d","e","f","g","h","i","j","k","l","m",
                "n","o","p","q","r","s","t","u","v","w","x","y","z">>
Digits == <<"0","1","2","3","4","5","6","7","8","9">>

IsDigit(c) == \E i \in 1..Len(Digits) : Digits[i] = c

lowerChar(c) ==
    IF \E i \in 1..Len(UpperChars) : UpperChars[i] = c
    THEN LowerChars[CHOOSE i \in 1..Len(UpperChars) : UpperChars[i] = c]
    ELSE c

upperChar(c) ==
    IF \E i \in 1..Len(LowerChars) : LowerChars[i] = c
    THEN UpperChars[CHOOSE i \in 1..Len(LowerChars) : LowerChars[i] = c]
    ELSE c

\* str.lower()
lower(s) == [i \in 1..Len(s) |-> lowerChar(s[i])]
\* str.upper()
upper(s) == [i \in 1..Len(s) |-> upperChar(s[i])]

\* str.startswith(p)
startswith(s, p) == Len(p) <= Len(s) /\ SubSeq(s, 1, Len(p)) = p
\* str.endswith(p)
endswith(s, p) == Len(p) <= Len(s) /\ SubSeq(s, Len(s) - Len(p) + 1, Len(s)) = p

\* re.match(r'^(.*?)([0-9]*)$', s).groups(): the lazy first group is the
\* shortest prefix whose remainder is all digits.
RegexSplit(s) ==
    LET cut == CHOOSE n \in 0..Len(s) :
                   /\ \A i \in (n+1)..Len(s) : IsDigit(s[i])
                   /\ \A m \in 0..(n-1) : \E i \in (m+1)..Len(s) : ~IsDigit(s[i])
    IN  <<SubSeq(s, 1, cut), SubSeq(s, cut + 1, Len(s))>>

(***************************************************************************)
(* dict / OrderedDict: insertion-ordered sequences of <<key, value>>       *)
(***************************************************************************)
DictHas(d, k) == \E i \in 1..Len(d) : d[i][1] = k
DictGet(d, k) == d[CHOOSE i \in 1..Len(d) : d[i][1] = k][2]
DictSet(d, k, v) ==
    IF DictHas(d, k)
    THEN [i \in 1..Len(d) |-> IF d[i][1] = k THEN <<k, v>> ELSE d[i]]
    ELSE Append(d, <<k, v>>)
DictDel(d, k) ==
    LET i == CHOOSE j \in 1..Len(d) : d[j][1] = k
    IN  SubSeq(d, 1, i - 1) \o SubSeq(d, i + 1, Len(d))
DictKeys(d) == [i \in 1..Len(d) |-> d[i][1]]
DictValues(d) == [i \in 1..Len(d) |-> d[i][2]]

(***************************************************************************)
(* class SmartDict                                                         *)
(***************************************************************************)
SmartDict_init == [kind |-> "SmartDict", od |-> << >>, casemap |-> << >>]

\* the od_keys of the casemap entries that match key, in casemap order
prefix_match_iter(s, key) ==
    LET g == RegexSplit(lower(key))
        name == g[1]
        number == g[2]
        F[i \in 0..Len(s.casemap)] ==
            IF i = 0 THEN << >>
            ELSE IF startswith(s.casemap[i][1], name) /\ endswith(s.casemap[i][1], number)
                 THEN Append(F[i-1], s.casemap[i][2])
                 ELSE F[i-1]
    IN  F[Len(s.casemap)]

prefix_match(s, key) ==
    LET m == prefix_match_iter(s, key)
    IN  IF Len(m) > 0 THEN m[1] ELSE None

\* a lookup either returns a value or raises KeyError
Found(v) == [ok |-> TRUE, val |-> v]
KeyError == [ok |-> FALSE, val |-> None]

OdLookup(s, k) == IF DictHas(s.od, k) THEN Found(DictGet(s.od, k)) ELSE KeyError

SmartDict_getitem(s, key) ==
    IF DictHas(s.od, key) THEN Found(DictGet(s.od, key))
    ELSE IF DictHas(s.casemap, lower(key))
         THEN OdLookup(s, DictGet(s.casemap, lower(key)))
         ELSE OdLookup(s, prefix_match(s, key))

is_ambiguous(s, key) ==
    /\ ~DictHas(s.od, key)
    /\ ~DictHas(s.casemap, key)
    /\ Len(prefix_match_iter(s, key)) > 1

\* the warning __setitem__ emits, if any
SmartDict_setitem_warning(s, key) ==
    IF DictHas(s.od, key) THEN "Duplicate entry"
    ELSE IF DictHas(s.casemap, lower(key)) THEN "differs only in cAsE"
    ELSE "none"

SmartDict_setitem(s, key, value) ==
    [s EXCEPT !.casemap = DictSet(s.casemap, lower(key), key),
              !.od = DictSet(s.od, key, value)]

\* __delitem__: [ok, sd]; a KeyError leaves whatever was done before it
SmartDict_delitem(s, key) ==
    IF ~DictHas(s.casemap, lower(key)) THEN [ok |-> FALSE, sd |-> s]
    ELSE LET cm == IF DictGet(s.casemap, lower(key)) = key
                   THEN DictDel(s.casemap, lower(key))
                   ELSE s.casemap
         IN  IF DictHas(s.od, key)
             THEN [ok |-> TRUE, sd |-> [s EXCEPT !.casemap = cm, !.od = DictDel(s.od, key)]]
             ELSE [ok |-> FALSE, sd |-> [s EXCEPT !.casemap = cm]]

\* __contains__ (the truth value of what it returns)
SmartDict_contains(s, key) ==
    \/ DictHas(s.od, key)
    \/ DictHas(s.casemap, lower(key))
    \/ prefix_match(s, key) # None

(***************************************************************************)
(* SpecDict: a SmartDict driven by arbitrary __setitem__ / __delitem__     *)
(***************************************************************************)
TIM == <<"T","I","M">>
TIM1 == <<"T","I","M","1">>
Tim1 == <<"T","i","m","1">>
TIM2 == <<"T","I","M","2">>
TIM10 == <<"T","I","M","1","0">>
TIM11 == <<"T","I","M","1","1">>
TIM3 == <<"T","I","M","3">>

\* keys that are stored and deleted
Keys == {TIM1, Tim1, TIM2, TIM10, TIM11}
\* keys that are looked up
LookupKeys == Keys \cup {upper(k) : k \in Keys} \cup {lower(k) : k \in Keys} \cup {TIM, TIM3}
Values == {"v1", "v2"}

\* no node has been handed over yet
NoNode == [tag |-> "none"]

NoOp == [op |-> "init", key |-> None, ok |-> TRUE, warning |-> "none", pre |-> SmartDict_init]

\* the variables of the document loader, at rest
LoaderIdle ==
    /\ peripherals = SmartDict_init
    /\ heap = << >>
    /\ status = "idle"
    /\ log = << >>
    /\ ref = [peripherals |-> SmartDict_init, heap |-> << >>, status |-> "idle",
              log |-> << >>, skipped |-> 0]
    /\ nloaded = 0
    /\ owner = 0
    /\ lastnode = [node |-> NoNode, pre |-> << >>, file |-> SmartDict_init]
    /\ touched = << >>

LoaderVars == <<peripherals, heap, status, log, ref, nloaded, owner, lastnode, touched>>

InitDict ==
    /\ sd = SmartDict_init
    /\ lastop = NoOp
    /\ LoaderIdle

SetItem(key, value) ==
    /\ DictHas(sd.od, key) \/ Len(sd.od) < MaxEntries
    /\ sd' = SmartDict_setitem(sd, key, value)
    /\ lastop' = [op |-> "set", key |-> key, ok |-> TRUE,
                  warning |-> SmartDict_setitem_warning(sd, key), pre |-> sd]
    /\ UNCHANGED LoaderVars

DelItem(key) ==
    /\ sd' = SmartDict_delitem(sd, key).sd
    /\ lastop' = [op |-> "del", key |-> key, ok |-> SmartDict_delitem(sd, key).ok,
                  warning |-> "none", pre |-> sd]
    /\ UNCHANGED LoaderVars

NextDict ==
    \/ \E key \in Keys, value \in Values : SetItem(key, value)
    \/ \E key \in Keys : DelItem(key)

SpecDict == InitDict /\ [][NextDict]_vars

\* stored keys that differ from K only by case
CaseVariants(s, K) == {i \in 1..Len(s.od) : s.od[i][1] # K /\ lower(s.od[i][1]) = lower(K)}

\* C5: every stored key K is found under K; when no other stored key differs
\* from K only by case it is also found under K.upper() and K.lower(), with
\* the value stored under K.
C5_LookupEquivalence ==
    \A i \in 1..Len(sd.od) :
        LET K == sd.od[i][1]
            v == sd.od[i][2]
        IN  /\ SmartDict_getitem(sd, K) = Found(v)
            /\ CaseVariants(sd, K) = {} =>
                   /\ SmartDict_getitem(sd, upper(K)) = Found(v)
                   /\ SmartDict_getitem(sd, lower(K)) = Found(v)

\* the case-folded forms of the stored keys that match a lookup key by the
\* (letter-prefix, digit-suffix) rule; keys differing only by case count once
RuleMatches(s, key) ==
    {lower(s.od[i][1]) : i \in
        {j \in 1..Len(s.od) :
            /\ startswith(lower(s.od[j][1]), RegexSplit(lower(key))[1])
            /\ endswith(lower(s.od[j][1]), RegexSplit(lower(key))[2])}}

\* C6: a lookup key with an exact or case-insensitive match resolves to the
\* value of such a stored key (the exact one if there is one) and is not
\* ambiguous; a lookup key with neither is ambiguous exactly when more than
\* one stored key (up to case) matches it by the prefix rule.
C6_TierPrecedence ==
    \A key \in LookupKeys :
        LET exact == {i \in 1..Len(sd.od) : sd.od[i][1] = key}
            folded == {i \in 1..Len(sd.od) : lower(sd.od[i][1]) = lower(key)}
        IN  /\ exact # {} =>
                   \E i \in exact : SmartDict_getitem(sd, key) = Found(sd.od[i][2])
            /\ (exact = {} /\ folded # {}) =>
                   \E i \in folded : SmartDict_getitem(sd, key) = Found(sd.od[i][2])
            /\ folded # {} => ~is_ambiguous(sd, key)
            /\ folded = {} =>
                   (is_ambiguous(sd, key) <=> Cardinality(RuleMatches(sd, key)) > 1)

\* C10: deleting a stored key succeeds, removes exactly that key from the
\* ordered mapping, clears the case-fold entry only if it pointed at the key,
\* and every value of the case-fold index is a stored key.
C10_DeleteStored ==
    /\ (lastop.op = "del" /\ DictHas(lastop.pre.od, lastop.key)) =>
           /\ lastop.ok
           /\ sd.od = DictDel(lastop.pre.od, lastop.key)
           /\ sd.casemap =
                  IF /\ DictHas(lastop.pre.casemap, lower(lastop.key))
                     /\ DictGet(lastop.pre.casemap, lower(lastop.key)) = lastop.key
                  THEN DictDel(lastop.pre.casemap, lower(lastop.key))
                  ELSE lastop.pre.casemap
    /\ \A i \in 1..Len(sd.casemap) : DictHas(sd.od, sd.casemap[i][2])

(***************************************************************************)
(* Text conversions used by the loader                                     *)
(***************************************************************************)
HexDigits == <<"0","1","2","3","4","5","6","7","8","9","a","b","c","d","e","f">>
HexDigitsUpper == <<"0","1","2","3","4","5","6","7","8","9","A","B","C","D","E","F">>

\* value of a digit character in a base, -1 if it is none
DigitVal(c, base) ==
    IF \E i \in 1..base : HexDigits[i] = c \/ HexDigitsUpper[i] = c
    THEN (CHOOSE i \in 1..base : HexDigits[i] = c \/ HexDigitsUpper[i] = c) - 1
    ELSE -1

\* the digits of s read in a base; -1 stands for ValueError
ParseDigits(s, base) ==
    LET F[i \in 0..Len(s)] ==
            IF i = 0 THEN 0
            ELSE CHOOSE b \in {IF prev < 0 \/ d < 0 THEN -1 ELSE prev * base + d :
                                   prev \in {F[i-1]}, d \in {DigitVal(s[i], base)}} : TRUE
    IN  IF Len(s) = 0 THEN -1 ELSE F[Len(s)]

\* the base a literal's prefix stands for; 10 if it has none
LiteralBase(s) ==
    IF Len(s) < 2 \/ s[1] # "0" THEN 10
    ELSE IF s[2] \in {"x", "X"} THEN 16
    ELSE IF s[2] \in {"o", "O"} THEN 8
    ELSE IF s[2] \in {"b", "B"} THEN 2
    ELSE 10

\* int(text, 0): the base is read from the literal's prefix; a decimal
\* literal with a leading zero is a ValueError unless it is all zeros.
IntAuto(s) ==
    CHOOSE b \in {IF LiteralBase(s) = 10 /\ Len(s) > 1 /\ s[1] = "0" /\ n # 0 THEN -1 ELSE n :
                      n \in {ParseDigits(IF LiteralBase(s) = 10 THEN s ELSE SubSeq(s, 3, Len(s)),
                                         LiteralBase(s))}} : TRUE

\* int(text): decimal only
IntDec(s) == ParseDigits(s, 10)

\* str.split(sep) for a one-character separator
Split(s, sep) ==
    LET F[i \in 0..Len(s)] ==
            IF i = 0 THEN << << >> >>
            ELSE IF s[i] = sep THEN Append(F[i-1], << >>)
                 ELSE [F[i-1] EXCEPT ![Len(F[i-1])] = Append(@, s[i])]
    IN  F[Len(s)]

\* str.replace("#", "0x")
ReplaceHash(s) ==
    LET F[i \in 0..Len(s)] ==
            IF i = 0 THEN << >>
            ELSE IF s[i] = "#" THEN F[i-1] \o <<"0","x">> ELSE Append(F[i-1], s[i])
    IN  F[Len(s)]

\* str(n) for n >= 0
RECURSIVE IntToStr(_)
IntToStr(n) == IF n < 10 THEN <<Digits[n + 1]>> ELSE Append(IntToStr(n \div 10), Digits[(n % 10) + 1])

\* ",".join(str(i) for i in range(dim))
default_dim_index(dim) ==
    LET F[i \in 0..dim] ==
            IF i = 0 THEN << >>
            ELSE IF i = 1 THEN IntToStr(0)
                 ELSE F[i-1] \o <<",">> \o IntToStr(i - 1)
    IN  F[dim]

\* positions of a "%s" conversion in a template
Placeholders(t) == {i \in 1..(Len(t) - 1) : t[i] = "%" /\ t[i+1] = "s"}

\* template % label, for a template with exactly one %s; anything else is a TypeError
Subst(t, label) ==
    LET i == CHOOSE j \in Placeholders(t) : TRUE
    IN  SubSeq(t, 1, i - 1) \o label \o SubSeq(t, i + 2, Len(t))

(***************************************************************************)
(* Document nodes (what lxml.objectify hands over): records.  An absent   *)
(* text child is None; an absent container child (fields, registers,       *)
(* enumeratedValues) is the empty sequence, which the code treats as it    *)
(* treats a container without children.                                    *)
(***************************************************************************)
FieldNode(name) ==
    [tag |-> "field", name |-> name, description |-> None, bitOffset |-> None,
     bitWidth |-> None, bitRange |-> None, lsb |-> None, msb |-> None,
     access |-> None, enumeratedValues |-> << >>]

RegisterNode(name, addressOffset) ==
    [tag |-> "register", name |-> name, addressOffset |-> addressOffset,
     description |-> None, access |-> None, size |-> None, derivedFrom |-> None,
     dim |-> None, dimIncrement |-> None, dimIndex |-> None,
     alternateGroup |-> None, fields |-> << >>]

ClusterNode(name, addressOffset, children) ==
    [tag |-> "cluster", name |-> name, addressOffset |-> addressOffset,
     description |-> None, dim |-> None, dimIncrement |-> None, dimIndex |-> None,
     children |-> children]

PeripheralNode(name, baseAddress, registers) ==
    [tag |-> "peripheral", name |-> name, description |-> None,
     baseAddress |-> baseAddress, derivedFrom |-> None, registers |-> registers]

\* getattr(node, member, default) as text
TextOr(v, default) == IF v = None THEN default ELSE v

EmptyStr == << >>
read_write == <<"r","e","a","d","-","w","r","i","t","e">>
\* the default register size, 0x20
DefaultSize == 32

(***************************************************************************)
(* The heap.  A constructor returns [heap, id, exc, out]: the heap after   *)
(* it, the id of the object built, the exception that left it ("none" if   *)
(* it returned) and what it printed.                                       *)
(*                                                                         *)
(* A result that is used more than once is bound by                        *)
(*     CHOOSE b \in {body(r) : r \in {result}} : TRUE                      *)
(* which evaluates it once: it reads as  LET r == result IN body(r).       *)
(***************************************************************************)
Ret(h, id, exc, out) == [heap |-> h, id |-> id, exc |-> exc, out |-> out]

\* pickle.loads(pickle.dumps(a)): a copy of everything reachable from a,
\* sharing nothing with it.  Returns [heap, id].
RECURSIVE copier(_, _)

\* one entry of a SmartDict's od, its value copied
CopyEntry(prev, entry) ==
    CHOOSE b \in {[heap |-> c.heap, od |-> Append(prev.od, <<entry[1], c.id>>)] :
                      c \in {copier(prev.heap, entry[2])}} : TRUE

CopyEntries(h, od) ==
    LET F[i \in 0..Len(od)] ==
            IF i = 0 THEN [heap |-> h, od |-> << >>]
            ELSE CHOOSE b \in {CopyEntry(prev, od[i]) : prev \in {F[i-1]}} : TRUE
    IN  F[Len(od)]

copier(h, a) ==
    IF h[a].kind = "SmartDict" THEN
        CHOOSE b \in {[heap |-> Append(r.heap, [h[a] EXCEPT !.od = r.od]),
                       id |-> Len(r.heap) + 1] :
                          r \in {CopyEntries(h, h[a].od)}} : TRUE
    ELSE IF h[a].kind = "SVDPeripheralRegister" THEN
        CHOOSE b \in {[heap |-> Append(f.heap, [h[a] EXCEPT !.fields = f.id]),
                       id |-> Len(f.heap) + 1] :
                          f \in {copier(h, h[a].fields)}} : TRUE
    ELSE IF h[a].kind = "SVDRegisterCluster" THEN
        CHOOSE b \in UNION {
            {[heap |-> Append(c.heap, [h[a] EXCEPT !.registers = r.id, !.clusters = c.id]),
              id |-> Len(c.heap) + 1] :
                 c \in {copier(r.heap, h[a].clusters)}} :
                     r \in {copier(h, h[a].registers)}} : TRUE
    ELSE [heap |-> Append(h, h[a]), id |-> Len(h) + 1]

(***************************************************************************)
(* class SVDPeripheralRegisterField                                        *)
(***************************************************************************)
\* the enum table: <<value, <<name, description>>>> pairs of the entries
\* that have a value which parses as an integer
FieldEnum(values) ==
    LET F[i \in 0..Len(values)] ==
            IF i = 0 THEN << >>
            ELSE IF values[i].tag # "enumeratedValue" \/ values[i].value = None
                 THEN F[i-1]
                 ELSE CHOOSE b \in {IF n < 0 THEN F[i-1]
                                    ELSE DictSet(F[i-1], n,
                                                 <<values[i].name,
                                                   TextOr(values[i].description, EmptyStr)>>) :
                                        n \in {IntAuto(ReplaceHash(values[i].value))}} : TRUE
    IN  F[Len(values)]

\* offset and width from the first encoding present; ok is FALSE if there is none
BitRange(ok, offset, width) == [ok |-> ok, offset |-> offset, width |-> width]

\* how a field node gives its bit range
BitRangeEncoding(node) ==
    IF node.bitOffset # None /\ node.bitWidth # None THEN "bitOffset"
    ELSE IF node.bitRange # None THEN "bitRange"
    ELSE IF node.lsb # None /\ node.msb # None THEN "lsb"
    ELSE "none"

\* the two numbers of the encoding, as text: <<bitOffset, bitWidth>>, <<msb, lsb>>
\* of "[msb:lsb]", or <<msb, lsb>>
BitRangeTexts(node) ==
    IF BitRangeEncoding(node) = "bitOffset" THEN <<node.bitOffset, node.bitWidth>>
    ELSE IF BitRangeEncoding(node) = "bitRange"
    THEN Split(SubSeq(node.bitRange, 2, Len(node.bitRange) - 1), ":")
    ELSE <<node.msb, node.lsb>>

FieldBitRange(node) ==
    IF BitRangeEncoding(node) = "none" THEN BitRange(FALSE, 0, 0)
    ELSE CHOOSE b \in {IF BitRangeEncoding(node) = "bitOffset" THEN BitRange(TRUE, n[1], n[2])
                       ELSE BitRange(TRUE, n[2], 1 + n[1] - n[2]) :
                           n \in {[i \in 1..2 |-> IntDec(BitRangeTexts(node)[i])]}} : TRUE

\* the object, br being its bit range
NewField(h, node, parent, br) ==
    [kind |-> "SVDPeripheralRegisterField",
     name |-> node.name,
     description |-> TextOr(node.description, EmptyStr),
     offset |-> br.offset,
     width |-> br.width,
     access |-> TextOr(node.access, h[parent].access),
     enum |-> FieldEnum(node.enumeratedValues)]

SVDPeripheralRegisterField_init(h, node, parent) ==
    CHOOSE b \in {IF ~br.ok THEN Ret(h, 0, "AssertionError", << >>)
                  ELSE Ret(Append(h, NewField(h, node, parent, br)), Len(h) + 1, "none", << >>) :
                      br \in {FieldBitRange(node)}} : TRUE

(***************************************************************************)
(* class SVDPeripheralRegister                                             *)
(***************************************************************************)
\* a register's size: the objectify element as found ("elem"), str() of it
\* ("str"), or the integer default ("int")
SizeVal(type, text, int) == [type |-> type, text |-> text, int |-> int]

\* the message a SmartDict store adds to the output, if any
StoreWarning(s, key) ==
    IF SmartDict_setitem_warning(s, key) = "none" THEN << >>
    ELSE <<[msg |-> SmartDict_setitem_warning(s, key), name |-> key]>>

SVDPeripheralRegister_refactor_parent(h, r, parent) ==
    [h EXCEPT ![r].parent_base_address = h[parent].base_address]

\* SVDPeripheralRegister.address()
address(h, r) == h[r].parent_base_address + h[r].offset

\* self.fields[str(f.name)] = SVDPeripheralRegisterField(f, self), f being the field built
RegisterFieldDone(prev, f, fnode, reg, dict) ==
    IF f.exc # "none" THEN Ret(f.heap, reg, f.exc, prev.out)
    ELSE Ret([f.heap EXCEPT ![dict] = SmartDict_setitem(@, fnode.name, f.id)],
             reg, "none", prev.out \o StoreWarning(f.heap[dict], fnode.name))

RegisterFieldStep(prev, fnode, reg, dict) ==
    IF prev.exc # "none" \/ fnode.tag # "field" THEN prev
    ELSE CHOOSE b \in {RegisterFieldDone(prev, f, fnode, reg, dict) :
                           f \in {SVDPeripheralRegisterField_init(prev.heap, fnode, reg)}} : TRUE

\* the fields of a register that is not derived, built in document order
RegisterFields(h, fieldNodes, reg, dict) ==
    LET F[i \in 0..Len(fieldNodes)] ==
            IF i = 0 THEN Ret(h, reg, "none", << >>)
            ELSE CHOOSE b \in {RegisterFieldStep(prev, fieldNodes[i], reg, dict) :
                                   prev \in {F[i-1]}} : TRUE
    IN  F[Len(fieldNodes)]

\* pickle.loads(pickle.dumps(a)) as SVDPeripheralRegister.__init__ uses it
RegisterCopier(h, a) == copier(h, a)

\* the attributes of a derived register, c being the copy of the fields
DerivedRegisterDone(c, node, parent, id, name) ==
    Ret(SVDPeripheralRegister_refactor_parent(
            [c.heap EXCEPT ![id] =
                [@ EXCEPT !.name = name,
                          !.description = TextOr(node.description, EmptyStr),
                          !.access = TextOr(node.access, read_write),
                          !.size = IF node.size # None THEN SizeVal("str", node.size, 0)
                                   ELSE SizeVal("int", EmptyStr, DefaultSize),
                          !.fields = c.id]],
            id, parent),
        id, "none", << >>)

\* the derivedFrom branch, x being parent.registers[derived_from]
DerivedRegisterFrom(x, h, node, parent, self, id) ==
    IF ~x.ok THEN Ret(Append(h, self), id, "KeyError", << >>)
    ELSE CHOOSE b \in {DerivedRegisterDone(c, node, parent, id,
                                           IF node.name # None THEN node.name
                                           ELSE h[x.val].name) :
                           c \in {RegisterCopier(Append(h, self), h[x.val].fields)}} : TRUE

DerivedRegister(h, node, parent, self, id) ==
    CHOOSE b \in {DerivedRegisterFrom(x, h, node, parent, self, id) :
                      x \in {SmartDict_getitem(h[h[parent].registers], node.derivedFrom)}} : TRUE

\* the branch of a register that inherits nothing
PlainRegister(h, node, parent, self, id) ==
    IF node.name = None THEN Ret(Append(h, self), id, "AttributeError", << >>)
    ELSE RegisterFields(
             Append(Append(h, [self EXCEPT
                                  !.description = TextOr(node.description, EmptyStr),
                                  !.name = node.name,
                                  !.access = TextOr(node.access, read_write),
                                  !.size = IF node.size # None
                                           THEN SizeVal("elem", node.size, 0)
                                           ELSE SizeVal("int", EmptyStr, DefaultSize),
                                  !.fields = id + 1]),
                    SmartDict_init),
             node.fields, id, id + 1)

\* the object before either branch fills it in
NewRegister(h, node, parent) ==
    [kind |-> "SVDPeripheralRegister",
     parent_base_address |-> h[parent].base_address,
     offset |-> IF node.addressOffset = None THEN 0 ELSE IntAuto(node.addressOffset),
     name |-> None, description |-> None, access |-> None,
     size |-> SizeVal("none", EmptyStr, 0), fields |-> 0]

SVDPeripheralRegister_init(h, node, parent) ==
    CHOOSE b \in {IF node.addressOffset = None
                  THEN Ret(Append(h, self), Len(h) + 1, "AttributeError", << >>)
                  ELSE IF node.derivedFrom # None
                  THEN DerivedRegister(h, node, parent, self, Len(h) + 1)
                  ELSE PlainRegister(h, node, parent, self, Len(h) + 1) :
                      self \in {NewRegister(h, node, parent)}} : TRUE

(***************************************************************************)
(* add_register                                                            *)
(***************************************************************************)
\* the index labels of a dimensioned node
dim_indices(node) ==
    Split(TextOr(node.dimIndex, default_dim_index(IntAuto(node.dim))), ",")

\* the dimensioned path, after the register is built:
\* reg.name = name; reg.offset += offset; parent.registers[name] = reg
add_register_dim_done(prev, r, regs, name, offset) ==
    IF r.exc # "none" THEN Ret(r.heap, 0, r.exc, prev.out \o r.out)
    ELSE Ret([r.heap EXCEPT ![r.id].name = name,
                            ![r.id].offset = @ + offset,
                            ![regs] = SmartDict_setitem(@, name, r.id)],
             0, "none", prev.out \o r.out \o StoreWarning(r.heap[regs], name))

\* name not in parent.registers
NameNotInRegisters(s, name) == ~SmartDict_contains(s, name)

\* the non-dimensioned path, after the register is built
add_register_single_done(r, regs, node) ==
    IF r.exc = "SVDNonFatalError"
    THEN Ret(r.heap, 0, "none", r.out \o <<[msg |-> "Non-fatal", name |-> node.name]>>)
    ELSE IF r.exc # "none" THEN Ret(r.heap, 0, r.exc, r.out)
    ELSE IF node.name = None THEN Ret(r.heap, 0, "AttributeError", r.out)
    ELSE IF NameNotInRegisters(r.heap[regs], node.name)
    THEN Ret([r.heap EXCEPT ![regs] = SmartDict_setitem(@, node.name, r.id)], 0, "none",
             r.out \o StoreWarning(r.heap[regs], node.name))
    ELSE IF node.alternateGroup # None
    THEN Ret(r.heap, 0, "none",
             r.out \o <<[msg |-> "has an alternate group", name |-> node.name]>>)
    ELSE Ret(r.heap, 0, "none", r.out)

\* what raises on the dimensioned path before the register is built
DimNameError(node) ==
    IF node.name = None THEN "AttributeError"
    ELSE IF Cardinality(Placeholders(node.name)) # 1 THEN "TypeError"
    ELSE "none"

\* one register built and stored: the body of the loop over the index labels
\* (offset being what has accumulated), or the whole non-dimensioned path
add_register_step(prev, parent, node, regs, label, offset) ==
    IF prev.exc # "none" THEN prev
    ELSE IF node.dim # None /\ DimNameError(node) # "none"
    THEN Ret(prev.heap, 0, DimNameError(node), prev.out)
    ELSE CHOOSE b \in {IF node.dim # None
                       THEN add_register_dim_done(prev, r, regs, Subst(node.name, label), offset)
                       ELSE add_register_single_done(r, regs, node) :
                           r \in {SVDPeripheralRegister_init(prev.heap, node, parent)}} : TRUE

\* the labels the loop runs over; the non-dimensioned path builds one register
add_register_labels(node) == IF node.dim # None THEN dim_indices(node) ELSE <<None>>

add_register(h, parent, node) ==
    LET F[k \in 0..Len(add_register_labels(node))] ==
            IF k = 0 THEN Ret(h, 0, "none", << >>)
            ELSE CHOOSE b \in {add_register_step(prev, parent, node, h[parent].registers,
                                                 add_register_labels(node)[k],
                                                 IF node.dim # None
                                                 THEN (k - 1) * IntAuto(node.dimIncrement)
                                                 ELSE 0) :
                                   prev \in {F[k-1]}} : TRUE
    IN  IF node.dim # None /\ node.dimIncrement = None
        THEN Ret(h, 0, "AttributeError", << >>)
        ELSE F[Len(add_register_labels(node))]

(***************************************************************************)
(* class SVDRegisterCluster, add_cluster                                   *)
(***************************************************************************)
ClusterRegisterStep(prev, child, self) ==
    IF prev.exc # "none" \/ child.tag # "register" THEN prev
    ELSE CHOOSE b \in {Ret(r.heap, self, r.exc, prev.out \o r.out) :
                           r \in {add_register(prev.heap, self, child)}} : TRUE

\* add_register for each child tagged "register", in document order
ClusterRegisters(h, children, self) ==
    LET F[i \in 0..Len(children)] ==
            IF i = 0 THEN Ret(h, self, "none", << >>)
            ELSE CHOOSE b \in {ClusterRegisterStep(prev, children[i], self) :
                                   prev \in {F[i-1]}} : TRUE
    IN  F[Len(children)]

\* the object before its registers are added, off being its address offset
NewClusterAt(h, node, parent, id, off) ==
    [kind |-> "SVDRegisterCluster",
     parent_base_address |-> h[parent].base_address,
     parent_name |-> h[parent].name,
     address_offset |-> off,
     base_address |-> off + h[parent].base_address,
     description |-> TextOr(node.description, EmptyStr),
     name |-> node.name,
     registers |-> id + 1,
     clusters |-> id + 2]

NewCluster(h, node, parent, id) ==
    CHOOSE b \in {NewClusterAt(h, node, parent, id, off) :
                      off \in {IF node.addressOffset = None THEN 0
                               ELSE IntAuto(node.addressOffset)}} : TRUE

SVDRegisterCluster_init(h, node, parent) ==
    CHOOSE b \in {IF node.addressOffset = None \/ node.name = None
                  THEN Ret(Append(h, self), Len(h) + 1, "AttributeError", << >>)
                  ELSE ClusterRegisters(
                           Append(Append(Append(h, self), SmartDict_init), SmartDict_init),
                           node.children, Len(h) + 1) :
                      self \in {NewCluster(h, node, parent, Len(h) + 1)}} : TRUE

\* r.refactor_parent(parent) for every register of a lookup
RefactorRegisters(h, dict, parent) ==
    LET F[i \in 0..Len(h[dict].od)] ==
            IF i = 0 THEN h
            ELSE CHOOSE b \in {SVDPeripheralRegister_refactor_parent(
                                   prev, h[dict].od[i][2], parent) :
                                   prev \in {F[i-1]}} : TRUE
    IN  F[Len(h[dict].od)]

SVDRegisterCluster_refactor_parent(h, c, parent) ==
    RefactorRegisters(
        [h EXCEPT ![c].parent_base_address = h[parent].base_address,
                  ![c].parent_name = h[parent].name,
                  ![c].base_address = h[parent].base_address + h[c].address_offset],
        h[c].registers, c)

\* the dimensioned path, after the cluster is built: cluster.name = name;
\* address_offset and base_address += offset; parent.clusters[name] = cluster
add_cluster_dim_done(prev, c, clusters, name, offset) ==
    IF c.exc # "none" THEN Ret(c.heap, 0, c.exc, prev.out \o c.out)
    ELSE Ret([c.heap EXCEPT ![c.id].name = name,
                            ![c.id].address_offset = @ + offset,
                            ![c.id].base_address = @ + offset,
                            ![clusters] = SmartDict_setitem(@, name, c.id)],
             0, "none", prev.out \o c.out \o StoreWarning(c.heap[clusters], name))

\* the non-dimensioned path, after the cluster is built
add_cluster_single_done(c, clusters, node) ==
    IF c.exc = "SVDNonFatalError"
    THEN Ret(c.heap, 0, "none", c.out \o <<[msg |-> "Non-fatal", name |-> node.name]>>)
    ELSE IF c.exc # "none" THEN Ret(c.heap, 0, c.exc, c.out)
    ELSE Ret([c.heap EXCEPT ![clusters] = SmartDict_setitem(@, node.name, c.id)],
             0, "none", c.out \o StoreWarning(c.heap[clusters], node.name))

\* one cluster built and stored: the body of the loop over the index labels
\* (offset being what has accumulated), or the whole non-dimensioned path
add_cluster_step(prev, parent, node, clusters, label, offset) ==
    IF prev.exc # "none" THEN prev
    ELSE IF node.dim # None /\ DimNameError(node) # "none"
    THEN Ret(prev.heap, 0, DimNameError(node), prev.out)
    ELSE CHOOSE b \in {IF node.dim # None
                       THEN add_cluster_dim_done(prev, c, clusters, Subst(node.name, label), offset)
                       ELSE add_cluster_single_done(c, clusters, node) :
                           c \in {SVDRegisterCluster_init(prev.heap, node, parent)}} : TRUE

add_cluster(h, parent, node) ==
    LET F[k \in 0..Len(add_register_labels(node))] ==
            IF k = 0 THEN Ret(h, 0, "none", << >>)
            ELSE CHOOSE b \in {add_cluster_step(prev, parent, node, h[parent].clusters,
                                                add_register_labels(node)[k],
                                                IF node.dim # None
                                                THEN (k - 1) * IntAuto(node.dimIncrement)
                                                ELSE 0) :
                                   prev \in {F[k-1]}} : TRUE
    IN  IF node.dim # None /\ node.dimIncrement = None
        THEN Ret(h, 0, "AttributeError", << >>)
        ELSE F[Len(add_register_labels(node))]

(***************************************************************************)
(* class SVDPeripheral                                                     *)
(***************************************************************************)
\* SVDFile.base_address
FileBaseAddress == 0

\* c.refactor_parent(p) for every cluster of a lookup
RefactorClusters(h, dict, p) ==
    LET F[i \in 0..Len(h[dict].od)] ==
            IF i = 0 THEN h
            ELSE CHOOSE b \in {SVDRegisterCluster_refactor_parent(
                                   prev, h[dict].od[i][2], p) :
                                   prev \in {F[i-1]}} : TRUE
    IN  F[Len(h[dict].od)]

\* a refactor_parent that repoints nothing
refactor_parent_skipped(h, p) == h

\* every register, then every cluster, repointed at the peripheral
SVDPeripheral_refactor_parent(h, p) ==
    CHOOSE b \in {RefactorClusters(h2, h2[p].clusters, p) :
                      h2 \in {RefactorRegisters(
                                  [h EXCEPT ![p].parent_base_address = FileBaseAddress],
                                  h[p].registers, p)}} : TRUE

PeripheralChildStep(prev, child, self) ==
    IF prev.exc # "none" THEN prev
    ELSE IF child.tag = "cluster"
    THEN CHOOSE b \in {Ret(r.heap, self, r.exc, prev.out \o r.out) :
                           r \in {add_cluster(prev.heap, self, child)}} : TRUE
    ELSE IF child.tag = "register"
    THEN CHOOSE b \in {Ret(r.heap, self, r.exc, prev.out \o r.out) :
                           r \in {add_register(prev.heap, self, child)}} : TRUE
    ELSE prev

\* the children of <registers>, clusters and registers in document order
PeripheralChildren(h, children, self) ==
    LET F[i \in 0..Len(children)] ==
            IF i = 0 THEN Ret(h, self, "none", << >>)
            ELSE CHOOSE b \in {PeripheralChildStep(prev, children[i], self) :
                                   prev \in {F[i-1]}} : TRUE
    IN  F[Len(children)]

\* a copier that hands back the object it was given
copier_by_reference(h, a) == [heap |-> h, id |-> a]

\* pickle.loads(pickle.dumps(a)) as SVDPeripheral.__init__ uses it
PeripheralCopier(h, a) == copier(h, a)

\* the attributes of a derived peripheral, r and c being the copies of the
\* registers and of the clusters; then refactor_parent
DerivedPeripheralDone(r, c, id, name, description) ==
    Ret(SVDPeripheral_refactor_parent(
            [c.heap EXCEPT ![id] =
                [@ EXCEPT !.name = name, !.description = description,
                          !.registers = r.id, !.clusters = c.id]],
            id),
        id, "none", << >>)

\* the derivedFrom branch, x being parent.peripherals[derived_from]
DerivedPeripheralFrom(x, h, node, self, id) ==
    IF ~x.ok THEN Ret(Append(h, self), id, "KeyError", << >>)
    ELSE CHOOSE b \in UNION {
             {DerivedPeripheralDone(r, c, id,
                                    IF node.name # None THEN node.name ELSE h[x.val].name,
                                    IF node.description # None THEN node.description
                                    ELSE h[x.val].description) :
                  c \in {PeripheralCopier(r.heap, h[x.val].clusters)}} :
                      r \in {PeripheralCopier(Append(h, self), h[x.val].registers)}} : TRUE

\* file is SVDFile.peripherals
DerivedPeripheral(h, node, file, self, id) ==
    CHOOSE b \in {DerivedPeripheralFrom(x, h, node, self, id) :
                      x \in {SmartDict_getitem(file, node.derivedFrom)}} : TRUE

\* the branch of a peripheral that inherits nothing
PlainPeripheral(h, node, self, id) ==
    IF node.name = None THEN Ret(Append(h, self), id, "AttributeError", << >>)
    ELSE PeripheralChildren(
             Append(Append(Append(h, [self EXCEPT
                                         !.description = TextOr(node.description, EmptyStr),
                                         !.name = node.name,
                                         !.registers = id + 1,
                                         !.clusters = id + 2]),
                           SmartDict_init), SmartDict_init),
             node.registers, id)

\* the object before either branch fills it in
NewPeripheral(node) ==
    [kind |-> "SVDPeripheral",
     parent_base_address |-> FileBaseAddress,
     base_address |-> IF node.baseAddress = None THEN 0 ELSE IntAuto(node.baseAddress),
     name |-> None, description |-> None, registers |-> 0, clusters |-> 0]

\* a peripheral node without a base address
NoBaseAddress(node) == node.baseAddress = None

SVDPeripheral_init(h, node, file) ==
    CHOOSE b \in {IF NoBaseAddress(node)
                  THEN Ret(Append(h, self), Len(h) + 1, "SVDNonFatalError", << >>)
                  ELSE IF node.derivedFrom # None
                  THEN DerivedPeripheral(h, node, file, self, Len(h) + 1)
                  ELSE PlainPeripheral(h, node, self, Len(h) + 1) :
                      self \in {NewPeripheral(node)}} : TRUE

(***************************************************************************)
(* class SVDFile: one iteration of the loop over the peripheral nodes      *)
(***************************************************************************)
\* a loop that catches nothing
CaughtNothing(exc) == FALSE

\* the exceptions the loop catches
Caught(exc) == exc = "SVDNonFatalError"

\* what follows the construction of the peripheral; m is [peripherals, heap, status, log]
SVDFile_store(m, r, node) ==
    IF Caught(r.exc)
    THEN [m EXCEPT !.heap = r.heap,
                   !.log = m.log \o r.out \o
                           <<[msg |-> "Non-fatal: Periph without base address",
                              name |-> node.name]>>]
    ELSE IF r.exc # "none"
    THEN [m EXCEPT !.heap = r.heap, !.log = m.log \o r.out, !.status = "failed"]
    ELSE IF node.name = None
    THEN [m EXCEPT !.heap = r.heap, !.log = m.log \o r.out, !.status = "failed"]
    ELSE [m EXCEPT !.heap = r.heap,
                   !.peripherals = SmartDict_setitem(@, node.name, r.id),
                   !.log = m.log \o r.out \o StoreWarning(m.peripherals, node.name)]

SVDFile_step(m, node) ==
    IF node.tag # "peripheral" THEN m
    ELSE CHOOSE b \in {SVDFile_store(m, r, node) :
                           r \in {SVDPeripheral_init(m.heap, node, m.peripherals)}} : TRUE

(***************************************************************************)
(* What is reachable from an object, and its value with every reference    *)
(* replaced by the value it refers to                                      *)
(***************************************************************************)
RECURSIVE Reach(_, _)
Reach(h, id) ==
    LET o == h[id]
    IN  {id} \cup
        IF o.kind = "SmartDict"
        THEN UNION {Reach(h, o.od[i][2]) : i \in 1..Len(o.od)}
        ELSE IF o.kind = "SVDPeripheralRegister" THEN Reach(h, o.fields)
        ELSE IF o.kind \in {"SVDRegisterCluster", "SVDPeripheral"}
        THEN Reach(h, o.registers) \cup Reach(h, o.clusters)
        ELSE {}

RECURSIVE View(_, _)
View(h, id) ==
    LET o == h[id]
    IN  IF o.kind = "SmartDict"
        THEN [o EXCEPT !.od = [i \in 1..Len(o.od) |-> <<o.od[i][1], View(h, o.od[i][2])>>]]
        ELSE IF o.kind = "SVDPeripheralRegister"
        THEN [o EXCEPT !.fields = View(h, o.fields)]
        ELSE IF o.kind \in {"SVDRegisterCluster", "SVDPeripheral"}
        THEN [o EXCEPT !.registers = View(h, o.registers), !.clusters = View(h, o.clusters)]
        ELSE o

\* the document's lookup with every peripheral replaced by its value
FileView(file, h) ==
    [file EXCEPT !.od = [i \in 1..Len(file.od) |-> <<file.od[i][1], View(h, file.od[i][2])>>]]

(***************************************************************************)
(* The documents the loader is run on                                      *)
(***************************************************************************)
GPIOA == <<"G","P","I","O","A">>
GPIOB == <<"G","P","I","O","B">>
tim1 == <<"t","i","m","1">>
MODER == <<"M","O","D","E","R">>
CR1 == <<"C","R","1">>
CR == <<"C","R">>
SR == <<"S","R">>
EN == <<"E","N">>
MODE == <<"M","O","D","E">>
CHs == <<"C","H","%","s">>
CLs == <<"C","L","%","s">>
XX == <<"X","X">>
read_only == <<"r","e","a","d","-","o","n","l","y">>
write_only == <<"w","r","i","t","e","-","o","n","l","y">>
ctl == <<"c","t","l">>
x40020000 == <<"0","x","4","0","0","2","0","0","0","0">>
x40020400 == <<"0","x","4","0","0","2","0","4","0","0">>
x40010000 == <<"0","x","4","0","0","1","0","0","0","0">>
x40000000 == <<"0","x","4","0","0","0","0","0","0","0">>

F_EN == [FieldNode(EN) EXCEPT !.bitOffset = <<"0">>, !.bitWidth = <<"1">>]
F_MODE ==
    [FieldNode(MODE) EXCEPT
        !.bitRange = <<"[","6",":","4","]">>,
        !.access = write_only,
        !.enumeratedValues =
            <<[tag |-> "enumeratedValue", name |-> <<"I","N">>, description |-> None,
               value |-> <<"#","1">>],
              [tag |-> "enumeratedValue", name |-> <<"O","U","T">>, description |-> None,
               value |-> <<"2">>],
              [tag |-> "enumeratedValue", name |-> <<"A","N","Y">>, description |-> None,
               value |-> <<"0","b","1","x">>]>>]

R_MODER == [RegisterNode(MODER, <<"0","x","0","0">>) EXCEPT !.fields = <<F_MODE>>]
R_CR1 ==
    [RegisterNode(CR1, <<"0","x","0">>) EXCEPT
        !.description = ctl, !.access = read_only, !.size = <<"1","6">>,
        !.fields = <<F_EN, F_MODE>>]
R_CR == RegisterNode(CR, <<"0","x","4">>)
R_CR1_alt == [RegisterNode(CR1, <<"0","x","8">>) EXCEPT !.alternateGroup = <<"a","l","t">>]
R_CH == [RegisterNode(CHs, <<"0","x","1","0">>) EXCEPT !.dim = <<"2">>, !.dimIncrement = <<"4">>]
R_CH_AB == [R_CH EXCEPT !.dimIndex = <<"A",",","B">>]
R_CH_ABC == [R_CH EXCEPT !.dimIndex = <<"A",",","B",",","C">>]
R_SR ==
    [RegisterNode(SR, <<"0","x","2","0">>) EXCEPT
        !.derivedFrom = CR1, !.description = <<"s","t">>, !.access = write_only,
        !.size = <<"8">>]
R_SR_bare == [RegisterNode(SR, <<"0","x","2","4">>) EXCEPT !.derivedFrom = CR1]
R_SR_XX == [RegisterNode(SR, <<"0","x","2","8">>) EXCEPT !.derivedFrom = XX]

RegisterNodes == {R_CR1, R_CR, R_CR1_alt, R_CH, R_CH_AB, R_CH_ABC, R_SR, R_SR_bare, R_SR_XX}

C_CL ==
    [ClusterNode(CLs, <<"0","x","1","0","0">>, <<R_CR>>) EXCEPT
        !.dim = <<"2">>, !.dimIncrement = <<"0","x","2","0">>]
C_G == ClusterNode(<<"G">>, <<"0","x","2","0","0">>, <<R_CR1, R_CH>>)

P_GPIOA == PeripheralNode(GPIOA, x40020000, <<R_MODER, R_CH, C_CL>>)
P_GPIOB == [PeripheralNode(GPIOB, x40020400, << >>) EXCEPT !.derivedFrom = GPIOA]
P_GPIOB_nobase == [PeripheralNode(GPIOB, None, << >>) EXCEPT !.derivedFrom = GPIOA]
P_TIM1 == PeripheralNode(TIM1, x40010000, <<R_CR1, C_G, R_SR_bare>>)
P_TIM1_nobase == PeripheralNode(TIM1, None, <<R_CR1>>)
P_TIM2 ==
    [PeripheralNode(TIM2, x40000000, << >>) EXCEPT !.derivedFrom = tim1, !.description = ctl]
P_other == [PeripheralNode(XX, None, << >>) EXCEPT !.tag = "comment"]

PeripheralNodes == {P_GPIOA, P_GPIOB, P_GPIOB_nobase, P_TIM1, P_TIM1_nobase, P_TIM2, P_other}

\* base addresses a loaded peripheral is moved to
RebaseAddresses == {IntAuto(x40020400), IntAuto(x40000000)}

(***************************************************************************)
(* Spec: SVDFile.__init__ over a document, one peripheral node per step,   *)
(* then mutations of the loaded model                                      *)
(***************************************************************************)
DictIdle == sd = SmartDict_init /\ lastop = NoOp

Machine == [peripherals |-> peripherals, heap |-> heap, status |-> status, log |-> log]

Init ==
    /\ DictIdle
    /\ peripherals = SmartDict_init
    /\ heap = << >>
    /\ status = "loading"
    /\ log = << >>
    /\ ref = [peripherals |-> SmartDict_init, heap |-> << >>, status |-> "loading",
              log |-> << >>, skipped |-> 0]
    /\ nloaded = 0
    /\ owner = 0
    /\ lastnode = [node |-> NoNode, pre |-> << >>, file |-> SmartDict_init]
    /\ touched = << >>

\* a peripheral node that has the base address it needs
HasBase(node) == node.tag # "peripheral" \/ node.baseAddress # None

LoadPeripheral(node) ==
    /\ status = "loading"
    /\ nloaded < MaxPeriph
    /\ \E m \in {[who \in {"file", "ref"} |->
                     IF who = "ref" /\ ~HasBase(node) THEN [ref EXCEPT !.skipped = @ + 1]
                     ELSE SVDFile_step(IF who = "file" THEN Machine ELSE ref, node)]} :
           /\ peripherals' = m["file"].peripherals
           /\ heap' = m["file"].heap
           /\ status' = m["file"].status
           /\ log' = m["file"].log
           /\ ref' = m["ref"]
    /\ nloaded' = nloaded + 1
    /\ lastnode' = [node |-> node, pre |-> heap, file |-> peripherals]
    /\ UNCHANGED <<sd, lastop, owner, touched>>

EndOfDocument ==
    /\ status = "loading"
    /\ status' = "done"
    /\ ref' = [ref EXCEPT !.status = "done"]
    /\ UNCHANGED <<sd, lastop, peripherals, heap, log, nloaded, owner, lastnode, touched>>

\* the i-th stored peripheral
Stored(i) == peripherals.od[i][2]

\* p.base_address = base; p.refactor_parent(file)
RebasePeripheral(i, base) ==
    /\ status = "done"
    /\ Len(touched) < MaxTouch
    /\ heap' = SVDPeripheral_refactor_parent([heap EXCEPT ![Stored(i)].base_address = base],
                                             Stored(i))
    /\ touched' = Append(touched, [op |-> "rebase", p |-> Stored(i), r |-> 0])
    /\ UNCHANGED <<sd, lastop, peripherals, status, log, ref, nloaded, owner, lastnode>>

\* del p.registers[key]
DeleteRegister(i, key) ==
    /\ status = "done"
    /\ Len(touched) < MaxTouch
    /\ DictHas(heap[heap[Stored(i)].registers].od, key)
    /\ heap' = [heap EXCEPT ![heap[Stored(i)].registers] = SmartDict_delitem(@, key).sd]
    /\ touched' = Append(touched, [op |-> "delete", p |-> Stored(i), r |-> 0])
    /\ UNCHANGED <<sd, lastop, peripherals, status, log, ref, nloaded, owner, lastnode>>

\* p.registers[key].fields[fkey].access = access
SetFieldAccess(i, key, fkey, access) ==
    /\ status = "done"
    /\ Len(touched) < MaxTouch
    /\ DictHas(heap[heap[Stored(i)].registers].od, key)
    /\ \E r \in {DictGet(heap[heap[Stored(i)].registers].od, key)} :
           /\ DictHas(heap[heap[r].fields].od, fkey)
           /\ heap' = [heap EXCEPT ![DictGet(heap[heap[r].fields].od, fkey)].access = access]
    /\ touched' = Append(touched, [op |-> "field", p |-> Stored(i),
                                   r |-> DictGet(heap[heap[Stored(i)].registers].od, key)])
    /\ UNCHANGED <<sd, lastop, peripherals, status, log, ref, nloaded, owner, lastnode>>

Next ==
    \/ \E node \in PeripheralNodes : LoadPeripheral(node)
    \/ EndOfDocument
    \/ \E i \in 1..Len(peripherals.od), base \in RebaseAddresses : RebasePeripheral(i, base)
    \/ \E i \in 1..Len(peripherals.od), key \in {MODER, CR1} : DeleteRegister(i, key)
    \/ \E i \in 1..Len(peripherals.od), key \in {MODER, CR1} :
           SetFieldAccess(i, key, MODE, read_only)

Spec == Init /\ [][Next]_vars

(***************************************************************************)
(* SpecReg: the loop of SVDPeripheral.__init__ over the register nodes of  *)
(* one peripheral, one add_register call per step                          *)
(***************************************************************************)
InitReg ==
    /\ DictIdle
    /\ peripherals = SmartDict_init
    /\ \E base \in {x40020000, x40010000} :
           heap = SVDPeripheral_init(<< >>, PeripheralNode(GPIOA, base, << >>),
                                     SmartDict_init).heap
    /\ status = "loading"
    /\ log = << >>
    /\ ref = [peripherals |-> SmartDict_init, heap |-> << >>, status |-> "idle",
              log |-> << >>, skipped |-> 0]
    /\ nloaded = 0
    /\ owner = 1
    /\ lastnode = [node |-> NoNode, pre |-> << >>, file |-> SmartDict_init]
    /\ touched = << >>

AddRegister(node) ==
    /\ status = "loading"
    /\ nloaded < MaxRegs
    /\ \E r \in {add_register(heap, owner, node)} :
           /\ heap' = r.heap
           /\ status' = IF r.exc = "none" THEN "loading" ELSE "failed"
           /\ log' = log \o r.out
    /\ nloaded' = nloaded + 1
    /\ lastnode' = [node |-> node, pre |-> heap, file |-> SmartDict_init]
    /\ UNCHANGED <<sd, lastop, peripherals, ref, owner, touched>>

NextReg == \E node \in RegisterNodes : AddRegister(node)

SpecReg == InitReg /\ [][NextReg]_vars

(***************************************************************************)
(* Properties of add_register, checked under SpecReg                       *)
(***************************************************************************)
\* the ids stored in a lookup
Members(h, dict) == {h[dict].od[i][2] : i \in 1..Len(h[dict].od)}

\* the owner's register lookup before and after the last add_register call
RegistersBefore == lastnode.pre[lastnode.pre[owner].registers]
RegistersAfter == heap[heap[owner].registers]

\* the registers the last call built and left in the lookup
NewlyStored == {id \in Members(heap, heap[owner].registers) : id > Len(lastnode.pre)}

LastWasDim == lastnode.node.tag = "register" /\ lastnode.node.dim # None /\ status = "loading"
LastWasSingle == lastnode.node.tag = "register" /\ lastnode.node.dim = None /\ status = "loading"

\* C3: add_register on a node with dimension count N, stride S and base
\* offset B leaves exactly N new registers in the owner's lookup, the k-th
\* index label's name stored with offset B + (k-1)S, the names pairwise distinct.
C3_DimExpansion ==
    LastWasDim =>
        LET node == lastnode.node
            N == IntAuto(node.dim)
            S == IntAuto(node.dimIncrement)
            B == IntAuto(node.addressOffset)
            labels == dim_indices(node)
            name(k) == Subst(node.name, labels[k])
        IN  /\ Cardinality(NewlyStored) = N
            /\ Len(labels) = N
            /\ \A k \in 1..N :
                   /\ DictHas(RegistersAfter.od, name(k))
                   /\ heap[DictGet(RegistersAfter.od, name(k))].offset = B + (k - 1) * S
            /\ \A j, k \in 1..N : j # k => name(j) # name(k)

\* C8: add_register on a node without dim stores the new register under the
\* node's name unless that name is already a key of the lookup, in which case
\* the lookup is left as it was.
C8_InsertedUnlessStored ==
    LastWasSingle =>
        LET name == lastnode.node.name
        IN  IF DictHas(RegistersBefore.od, name)
            THEN RegistersAfter.od = RegistersBefore.od
            ELSE /\ DictHas(RegistersAfter.od, name)
                 /\ DictGet(RegistersAfter.od, name) \in NewlyStored
                 /\ DictKeys(RegistersAfter.od) = DictKeys(RegistersBefore.od) \o <<name>>

\* the attribute of a derived register: the node's if given, else that of x
Inherited(given, x) == IF given # None THEN given ELSE x

\* a register's size as a number, whichever way it is kept
SizeOf(size) == IF size.type = "int" THEN size.int ELSE IntAuto(size.text)

\* C9: a register built from a node with derivedFrom = X takes name,
\* description, access and size from the node where given and from X
\* otherwise; its fields are a copy of X's, and its address is the owner's
\* base address plus its own addressOffset.
C9_DerivedRegisterOverlay ==
    (LastWasSingle /\ lastnode.node.derivedFrom # None /\ NewlyStored # {}) =>
        LET node == lastnode.node
            x == lastnode.pre[SmartDict_getitem(RegistersBefore, node.derivedFrom).val]
            r == heap[CHOOSE id \in NewlyStored : TRUE]
        IN  /\ r.name = Inherited(node.name, x.name)
            /\ r.description = Inherited(node.description, x.description)
            /\ r.access = Inherited(node.access, x.access)
            /\ SizeOf(r.size) = IF node.size # None THEN IntAuto(node.size) ELSE SizeOf(x.size)
            /\ View(heap, r.fields) = View(lastnode.pre, x.fields)
            /\ r.parent_base_address + r.offset
                   = heap[owner].base_address + IntAuto(node.addressOffset)

(***************************************************************************)
(* Properties of the loaded model, checked under Spec                      *)
(***************************************************************************)
\* the last node was a peripheral with derivedFrom and a base address, it
\* was built and stored, and nothing has been changed since
LastWasDerived ==
    /\ lastnode.node.tag = "peripheral"
    /\ lastnode.node.derivedFrom # None
    /\ HasBase(lastnode.node)
    /\ status # "failed"
    /\ touched = << >>

\* that peripheral, and the one it was derived from
DerivedP == DictGet(peripherals.od, lastnode.node.name)
DerivedX == SmartDict_getitem(lastnode.file, lastnode.node.derivedFrom).val

\* the register stored under a name
RegisterOf(p, name) == DictGet(heap[heap[p].registers].od, name)

\* the register names two peripherals share
CommonNames(p, x) ==
    {heap[heap[p].registers].od[i][1] : i \in 1..Len(heap[heap[p].registers].od)}
        \cap {heap[heap[x].registers].od[i][1] : i \in 1..Len(heap[heap[x].registers].od)}

\* C1: after a peripheral P is built with derivedFrom = X and its own base
\* address, every register name they share has P's register at P.base_address
\* plus X's register's offset, and X's register still at X.base_address plus
\* its offset.
C1_DerivedAddresses ==
    LastWasDerived =>
        \A name \in CommonNames(DerivedP, DerivedX) :
            /\ address(heap, RegisterOf(DerivedP, name))
                   = heap[DerivedP].base_address + heap[RegisterOf(DerivedX, name)].offset
            /\ address(heap, RegisterOf(DerivedX, name))
                   = heap[DerivedX].base_address + heap[RegisterOf(DerivedX, name)].offset

\* GPIOB derived from GPIOA has MODER at its own base address 0x40020400
C1_Witness ==
    /\ LastWasDerived
    /\ lastnode.node = P_GPIOB
    /\ heap[DerivedX].base_address = IntAuto(x40020000)
    /\ MODER \in CommonNames(DerivedP, DerivedX)
    /\ address(heap, RegisterOf(DerivedP, MODER)) = IntAuto(x40020400)

\* every register of an owner is at the owner's base address plus its offset
OwnedRegistersFollow(o) ==
    \A r \in Members(heap, heap[o].registers) :
        address(heap, r) = heap[o].base_address + heap[r].offset

\* C2: once a document is loaded, every register of every peripheral and of
\* every cluster is at its owner's current base address plus its own offset.
C2_AddressFollowsOwner ==
    status = "done" =>
        \A i \in 1..Len(peripherals.od) :
            /\ OwnedRegistersFollow(Stored(i))
            /\ \A c \in Members(heap, heap[Stored(i)].clusters) : OwnedRegistersFollow(c)

\* no object is reachable from two stored peripherals, nor from two
\* registers of one peripheral
Isolated ==
    /\ \A i, j \in 1..Len(peripherals.od) :
           i # j => Reach(heap, Stored(i)) \cap Reach(heap, Stored(j)) = {}
    /\ \A i \in 1..Len(peripherals.od) :
           \A r1, r2 \in Members(heap, heap[Stored(i)].registers) :
               r1 # r2 => Reach(heap, r1) \cap Reach(heap, r2) = {}

\* a change made under one peripheral leaves every other peripheral as it
\* was, and a change made under one register leaves the other registers of
\* its peripheral as they were
OthersUnchanged ==
    touched' # touched =>
        LET t == touched'[Len(touched')]
        IN  /\ \A i \in 1..Len(peripherals.od) :
                   Stored(i) # t.p => View(heap', Stored(i)) = View(heap, Stored(i))
            /\ t.op = "field" =>
                   \A r \in Members(heap, heap[t.p].registers) \ {t.r} :
                       View(heap', r) = View(heap, r)

\* C4: what is built with derivedFrom = X shares no object with X, so a
\* rebase or a mutation under one of the two leaves the other unchanged.
C4_CloneIsolation == [][Isolated' /\ OthersUnchanged]_vars

\* GPIOA and GPIOB derived from it are loaded, and one of them was changed
C4_Witness ==
    /\ status = "done"
    /\ Len(touched) > 0
    /\ lastnode.node = P_GPIOB
    /\ \E i, j \in 1..Len(peripherals.od) :
           /\ heap[Stored(i)].name = GPIOA
           /\ heap[Stored(j)].name = GPIOB
           /\ touched[1].p \in {Stored(i), Stored(j)}

\* the report of a peripheral without base address
IsSkipReport(l) == l.msg = "Non-fatal: Periph without base address"
IsOtherOutput(l) == ~IsSkipReport(l)

\* C7: a document with peripheral nodes that have no baseAddress loads as the
\* document without those nodes does: the same outcome, the same lookup with
\* the same content under every name, the same output but for one report per
\* node skipped.
C7_SkipAndContinue ==
    (ref.skipped > 0 /\ touched = << >>) =>
        /\ status = ref.status
        /\ FileView(peripherals, heap) = FileView(ref.peripherals, ref.heap)
        /\ SelectSeq(log, IsOtherOutput) = ref.log
        /\ Len(SelectSeq(log, IsSkipReport)) = ref.skipped

\* a peripheral was loaded after one without base address was skipped
C7_Witness ==
    /\ status = "done"
    /\ ref.skipped > 0
    /\ lastnode.node = P_GPIOA
    /\ DictHas(peripherals.od, GPIOA)
    /\ ~DictHas(peripherals.od, TIM1)

====
